---- MODULE Spec2Model ----
(***************************************************************************)
(* prometheus_gke_sd: the reconciliation loop of main(), the trigger       *)
(* multiplexer watchAndTick, the change notifier watchFile, and the pure   *)
(* helpers they call (clusterListEqual, writeClusterCerts, generateConfig). *)
(***************************************************************************)
EXTENDS Integers, Sequences, FiniteSets, TLC

\* ------------------------------------------------------------------ bounds
\* longest cluster list a fetch of the loop returns
MaxClusters == 1
\* longest argument of a clusterListEqual call checked on its own
MaxEqualLen == 2
\* most reload requests one cycle sends before its deadline fires
MaxAttempts == 2

\* longest list of answers a reload target is given, its last answer repeated for ever
MaxScript == 3

\* longest cluster list a fetch of the ConfigMap variant returns
MaxFetched == 2

\* at most this many fsnotify events wait on watcher.Events
MaxRaw == 2
\* longest cluster list of a generateConfig call checked on its own
MaxGenLen == 2
\* longest cluster list of a writeClusterCerts call checked on its own
MaxCertLen == 2

\* ------------------------------------------------------------- input data
\* base64.StdEncoding.DecodeString on the credential strings the model uses
DecodeString(s) ==
  CASE s = "QQ==" -> [bytes |-> "A", err |-> FALSE]
    [] s = "Qg==" -> [bytes |-> "B", err |-> FALSE]
    [] OTHER -> [bytes |-> "", err |-> TRUE]

\* container.Cluster values the inventory can return
ClusterA ==
  [Name |-> "a", Endpoint |-> "10.0.0.1", Ca |-> "QQ==", Cert |-> "QQ==", Key |-> "QQ=="]

\* the same name with a rotated endpoint and bundle whose client cert is malformed
ClusterA2 ==
  [Name |-> "a", Endpoint |-> "10.0.0.9", Ca |-> "Qg==", Cert |-> "!bad", Key |-> "Qg=="]

ClusterB ==
  [Name |-> "b", Endpoint |-> "10.0.0.2", Ca |-> "Qg==", Cert |-> "Qg==", Key |-> "Qg=="]

ClusterC ==
  [Name |-> "c", Endpoint |-> "", Ca |-> "QQ==", Cert |-> "QQ==", Key |-> "QQ=="]

Clusters == {ClusterA, ClusterA2, ClusterB}

\* bundles whose CA certificate, and whose client key, is malformed
ClusterBadCa ==
  [Name |-> "b", Endpoint |-> "10.0.0.2", Ca |-> "!bad", Cert |-> "Qg==", Key |-> "Qg=="]

ClusterBadKey ==
  [Name |-> "b", Endpoint |-> "10.0.0.2", Ca |-> "QQ==", Cert |-> "QQ==", Key |-> "!bad"]

\* the cluster lists writeClusterCerts is called with on its own
CertLists ==
  UNION {[1..n -> Clusters \cup {ClusterBadCa, ClusterBadKey}] : n \in 0..MaxCertLen}

\* arguments of a clusterListEqual call checked on its own
EqualLists == UNION {[1..n -> Clusters \cup {ClusterC}] : n \in 0..MaxEqualLen}

ClusterLists == UNION {[1..n -> Clusters] : n \in 0..MaxClusters}

\* the cluster lists a fetch of the ConfigMap variant returns: no name twice
FetchedLists ==
  {l \in UNION {[1..n -> {ClusterA, ClusterA2, ClusterB, ClusterC}] : n \in 0..MaxFetched} :
     \A i, j \in 1..Len(l) : l[i].Name = l[j].Name => i = j}

\* the cluster lists generateConfig is called with on its own
GenLists == UNION {[1..n -> {ClusterA, ClusterB, ClusterC}] : n \in 0..MaxGenLen}

Names == {c.Name : c \in Clusters}

CertTypes == {"ca", "cert", "key"}

\* <outDir>/<name>-<type>.pem, one path per (name, type)
CertPaths == Names \X CertTypes

\* the set of names of a cluster list
NameSet(list) == {list[i].Name : i \in 1..Len(list)}

\* keys of the map GetRoles returns
Roles == {"apiserver", "node", "endpoint", "service", "pod"}

\* orders in which `range GetRoles()` may visit the keys (Go leaves it unspecified)
RoleOrders ==
  { <<"apiserver", "endpoint", "node", "pod", "service">>,
    <<"service", "pod", "node", "endpoint", "apiserver">> }

\* contents the input file may take: a document that parses and one that does not
InputFiles == {"v1", "garbage"}

\* the input files generateConfig is called with on its own
GenInputs == {"v1", "v2", "garbage"}

\* a stanza of a YAML document: its job name, the keys of each of its relabel rules,
\* its kubernetes_sd_configs block (none in an authored stanza) and its other keys
Authored(job, rules, keys) ==
  [job_name |-> <<job>>, role |-> "", api_server |-> "",
   relabel_configs |-> rules, other |-> keys]

\* the scrape_configs of the documents the input file may hold; v2 has a relabel rule
\* with Prometheus' `separator` key
InputDoc(content) ==
  CASE content = "v1" ->
         << Authored("static_1", <<>>, {"static_configs"}),
            Authored("static_2", << {"source_labels", "regex", "action"} >>,
                     {"static_configs", "scrape_interval"}) >>
    [] content = "v2" ->
         << Authored("static_1", << {"source_labels", "separator", "target_label"} >>,
                     {"static_configs"}) >>
    [] OTHER -> <<>>

\* the yaml keys of RelabelConfig's fields
RelabelFields ==
  {"source_labels", "seperator", "regex", "modulus", "target_label", "replacement", "action"}

\* yaml.Unmarshal into a RelabelConfig: a key that is no field of the struct is ignored
UnmarshalRelabelConfig(rule) == rule \cap RelabelFields

\* yaml.Unmarshal into a ScrapeConfig: keys that are no field go to the inline map XXX
UnmarshalScrapeConfig(y) ==
  [JobName |-> y.job_name, Role |-> y.role, APIServer |-> y.api_server,
   RelabelConfigs |-> [i \in 1..Len(y.relabel_configs) |->
                        UnmarshalRelabelConfig(y.relabel_configs[i])],
   XXX |-> y.other]

\* yaml.Marshal of a ScrapeConfig
MarshalScrapeConfig(c) ==
  [job_name |-> c.JobName, role |-> c.Role, api_server |-> c.APIServer,
   relabel_configs |-> c.RelabelConfigs, other |-> c.XXX]

\* ioutil.ReadFile, then yaml.Unmarshal of the input file into PrometheusConfig
readInputConfig(content, readable) ==
  IF ~readable \/ content = "garbage" THEN [ScrapeConfigs |-> <<>>, err |-> TRUE]
  ELSE [ScrapeConfigs |-> [i \in 1..Len(InputDoc(content)) |->
                             UnmarshalScrapeConfig(InputDoc(content)[i])],
        err |-> FALSE]

\* ------------------------------------------------------------ file system
NoFile == "<absent>"
Truncated == ""

NoConfig == [state |-> "absent", cfg |-> <<>>]
TruncatedConfig == [state |-> "partial", cfg |-> <<>>]

WriteOutcomes == {"ok", "openerr", "writeerr"}

\* ioutil.WriteFile: O_TRUNC open, write, close; a failed open leaves the file, a
\* failed write leaves it truncated
WriteFile(old, data, truncated, outcome) ==
  CASE outcome = "ok" -> [content |-> data, err |-> FALSE]
    [] outcome = "openerr" -> [content |-> old, err |-> TRUE]
    [] OTHER -> [content |-> truncated, err |-> TRUE]

\* a writeCert that opens its file before it decodes
writeCertOpeningFirst(files, clusterName, certType, b64Cert, outcome) ==
  LET d == DecodeString(b64Cert)
  IN IF d.err
     THEN [files |-> [files EXCEPT ![<<clusterName, certType>>] = Truncated], err |-> TRUE]
     ELSE LET w == WriteFile(files[<<clusterName, certType>>], d.bytes, Truncated, outcome)
          IN [files |-> [files EXCEPT ![<<clusterName, certType>>] = w.content],
              err |-> w.err]

\* base64 DecodeString, and only then ioutil.WriteFile of <outDir>/<name>-<type>.pem
writeCert(files, clusterName, certType, b64Cert, outcome) ==
  LET d == DecodeString(b64Cert)
  IN IF d.err THEN [files |-> files, err |-> TRUE]
     ELSE LET w == WriteFile(files[<<clusterName, certType>>], d.bytes, Truncated, outcome)
          IN [files |-> [files EXCEPT ![<<clusterName, certType>>] = w.content],
              err |-> w.err]

\* writeClusterCerts from cluster i on; the failAt-th WriteFile call (0: none)
\* ends with outcome mode
RECURSIVE certsFrom(_, _, _, _, _)
certsFrom(files, clusters, i, failAt, mode) ==
  IF i > Len(clusters) THEN [files |-> files, err |-> FALSE]
  ELSE LET c == clusters[i]
           oc(k) == IF failAt = 3 * (i - 1) + k THEN mode ELSE "ok"
           r1 == writeCert(files, c.Name, "ca", c.Ca, oc(1))
           r2 == writeCert(r1.files, c.Name, "cert", c.Cert, oc(2))
           r3 == writeCert(r2.files, c.Name, "key", c.Key, oc(3))
       IN IF r1.err THEN r1
          ELSE IF r2.err THEN r2
          ELSE IF r3.err THEN r3
          ELSE certsFrom(r3.files, clusters, i + 1, failAt, mode)

writeClusterCerts(files, clusters, failAt, mode) ==
  certsFrom(files, clusters, 1, failAt, mode)

\* --------------------------------------------------------- config generator
\* the stanzas of `for r, c := range GetRoles()`, from the k-th role visited on. The
\* rules of a derived stanza, `RelabelConfigs: c`, are the fixed list of its Role in the
\* table of GetRoles; the stanza carries its Role and does not repeat the list.
RECURSIVE roleConfigs(_, _, _)
roleConfigs(cluster, order, k) ==
  IF k > Len(order) THEN <<>>
  ELSE << [JobName |-> <<"kubernetes", cluster.Name, order[k]>>,
           Role |-> order[k],
           APIServer |-> cluster.Endpoint,
           RelabelConfigs |-> <<>>,
           XXX |-> {}] >> \o roleConfigs(cluster, order, k + 1)

\* the stanzas of a cluster whatever its endpoint
clusterToScrapeConfigsAnyEndpoint(cluster, order) == roleConfigs(cluster, order, 1)

\* a loop over the roles that stops after the role it visits first
clusterToScrapeConfigsFirstVisited(cluster, order) ==
  IF cluster.Endpoint = "" THEN <<>> ELSE SubSeq(roleConfigs(cluster, order, 1), 1, 1)

\* `if cluster.Endpoint == "" { ...; return configs }`, then `for r, c := range GetRoles()`
clusterToScrapeConfigs(cluster, order) ==
  IF cluster.Endpoint = "" THEN <<>> ELSE roleConfigs(cluster, order, 1)

RECURSIVE derivedFrom(_, _, _)
derivedFrom(clusters, orders, i) ==
  IF i > Len(clusters) THEN <<>>
  ELSE clusterToScrapeConfigs(clusters[i], orders[i]) \o derivedFrom(clusters, orders, i + 1)

\* yaml.Marshal of the scrape_configs of a PrometheusConfig
Marshal(scrapeConfigs) ==
  [state |-> "full",
   cfg |-> [i \in 1..Len(scrapeConfigs) |-> MarshalScrapeConfig(scrapeConfigs[i])]]

\* the generator with the derived stanzas put in front of the input's
generateConfigPrepending(content, readable, clusters, orders) ==
  LET inputConfig == readInputConfig(content, readable)
  IN IF inputConfig.err THEN [data |-> NoConfig, err |-> TRUE]
     ELSE [data |-> Marshal(derivedFrom(clusters, orders, 1) \o inputConfig.ScrapeConfigs),
           err |-> FALSE]

\* generateConfig: the input's stanzas, then the derived ones appended
generateConfig(content, readable, clusters, orders) ==
  LET inputConfig == readInputConfig(content, readable)
  IN IF inputConfig.err THEN [data |-> NoConfig, err |-> TRUE]
     ELSE [data |-> Marshal(inputConfig.ScrapeConfigs \o derivedFrom(clusters, orders, 1)),
           err |-> FALSE]

\* -------------------------------------------------------------- the differ
RECURSIVE byName(_, _)
byName(list, i) ==
  IF i > Len(list) THEN {} ELSE {list[i].Name} \cup byName(list, i + 1)

\* `for _, x := range list { if _, ok := m[x.Name]; !ok { return false } }`
RECURSIVE allIn(_, _, _)
allIn(list, m, i) ==
  IF i > Len(list) THEN TRUE
  ELSE IF list[i].Name \notin m THEN FALSE
  ELSE allIn(list, m, i + 1)

\* the comparison without its second loop
clusterListEqualOneWay(old, new) ==
  LET newByName == byName(new, 1)
  IN IF ~allIn(old, newByName, 1) THEN FALSE ELSE TRUE

\* the comparison taken over whole cluster records
clusterListEqualDeep(old, new) == old = new

clusterListEqual(old, new) ==
  LET oldByName == byName(old, 1)
      newByName == byName(new, 1)
  IN IF ~allIn(old, newByName, 1) THEN FALSE
     ELSE IF ~allIn(new, oldByName, 1) THEN FALSE
     ELSE TRUE

\* ----------------------------- the ConfigMap variant's cluster list reconcile
\* `for _, cluster := range newClusterList`: a cluster whose name the inner loop does not
\* find in oldClusters (as grown so far) is appended; from the k-th cluster on
RECURSIVE addNew(_, _, _)
addNew(old, new, k) ==
  IF k > Len(new) THEN old
  ELSE IF \E j \in 1..Len(old) : new[k].Name = old[j].Name
       THEN addNew(old, new, k + 1)
       ELSE addNew(Append(old, new[k]), new, k + 1)

\* indexesToRemove: the indexes i (from 0, as in the code) of the clusters of oldClusters
\* whose name is not in newClusterList, in ascending order; from index i on
RECURSIVE staleIndexes(_, _, _)
staleIndexes(old, new, i) ==
  IF i >= Len(old) THEN <<>>
  ELSE (IF \E j \in 1..Len(new) : new[j].Name = old[i + 1].Name THEN <<>> ELSE <<i>>)
         \o staleIndexes(old, new, i + 1)

\* `oldClusters[:i+copy(oldClusters[i:], oldClusters[i+1:])]`: what stands after index i
\* moves one place down and the list loses its last place
removeAt(list, i) ==
  [j \in 1..(Len(list) - 1) |-> IF j <= i THEN list[j] ELSE list[j + 1]]

\* `for _, i := range indexesToRemove`, from the k-th index on; `oldClusters[i+1:]` with
\* i+1 beyond len(oldClusters) is a run-time panic (slice bounds out of range)
RECURSIVE removeAll(_, _, _)
removeAll(list, indexes, k) ==
  IF k > Len(indexes) THEN [list |-> list, panic |-> FALSE]
  ELSE IF indexes[k] + 1 > Len(list) THEN [list |-> list, panic |-> TRUE]
  ELSE removeAll(removeAt(list, indexes[k]), indexes, k + 1)

\* the add/remove step of a tick: what it leaves in oldClusters and hasChanged, and
\* whether it panics
reconcile(old, new) ==
  LET taken == IF Len(old) = 0 THEN new ELSE old
      added == addNew(taken, new, 1)
      indexesToRemove == staleIndexes(added, new, 0)
      removed == removeAll(added, indexesToRemove, 1)
  IN [oldClusters |-> removed.list,
      panic |-> removed.panic,
      hasChanged |-> (Len(old) = 0 \/ added # taken \/ indexesToRemove # <<>>)]

\* `debounceDuration = time.Second * 5`, in seconds
debounceDuration == 5

\* time.Second, in nanoseconds as a time.Duration counts
Second == 1000000000

\* `pollInterval = time.Second * 10`, in seconds: the deadline of a cycle's context
pollInterval == 10

\* `reloadInterval = time.Second`
reloadInterval == Second

\* `reloadBackoff = 1.1`, as the fraction 11/10
reloadBackoff == <<11, 10>>

\* `time.Duration(float64(backoff) * reloadBackoff)`: the product, cut to whole
\* nanoseconds
NextBackoff(b) ==
  (b \div reloadBackoff[2]) * reloadBackoff[1]
    + ((b % reloadBackoff[2]) * reloadBackoff[1]) \div reloadBackoff[2]

\* a point in time: seconds and nanoseconds since reloadPrometheus was called
Time(sec) == [s |-> sec, ns |-> 0]

\* the time a time.Duration d after t
After(t, d) ==
  LET n == t.ns + (d % Second)
  IN [s |-> t.s + (d \div Second) + (n \div Second), ns |-> n % Second]

TimeLess(a, b) == a.s < b.s \/ (a.s = b.s /\ a.ns < b.ns)

Earlier(a, b) == IF TimeLess(a, b) THEN a ELSE b

\* what a request can come back with: a response, or an error of the transport
Answers == {"2xx", "non2xx", "error"}

\* reload targets: the answers to the first requests, the last one given from then on
Targets == UNION {[1..n -> Answers] : n \in 1..MaxScript}

\* the time a request takes to come back
PostTimes == {0, Second \div 2}

\* the time the cycle's context has left when reloadPrometheus is called
Deadlines == {Time(d) : d \in {0, 2, 3, pollInterval}}

\* ------------------------------------------------------------------- state
VARIABLES
  inputFile,       \* content of configInputFile
  mpc,             \* watchAndTick goroutine: "init" before its first send, then "select"
  pc,              \* main goroutine: "idle" or the stage of loop() in progress
  force,           \* the argument of the running (or last) loop(force)
  currentClusters, \* the baseline
  newClusters,     \* loop's local newClusters
  newConfig,       \* loop's local newConfig
  ctxDone,         \* the cycle's context deadline has fired
  posts,           \* reload requests sent by this cycle's reloadPrometheus
  lastPost,        \* what the last of them came back with, "none" before the first
  certFiles,       \* content of each credential file under certOutDir
  artifact,        \* content of configOutputFile
  certFiles0,      \* history: certFiles when the cycle began
  artifact0,       \* history: artifact when the cycle began
  done,            \* history: stages of this cycle that returned success, in order
  cycleResult,     \* history: "running", or how the last cycle ended
  errStage,        \* history: the stage whose error ended the last cycle, if one did
  prevFailed,      \* history: the cycle before the running one ended with an error
  first,           \* history: cause and value of the first trigger sent on ch
  initials,        \* history: initial triggers sent on ch (2 stands for more)
  okFetches,       \* history: successful fetches so far (2 stands for more)
  eqOld, eqNew,    \* arguments of a clusterListEqual call
  eqPc,            \* "call" before, "return" after that call
  eqResult,        \* clusterListEqual(eqOld, eqNew)
  eqReverse,       \* clusterListEqual(eqNew, eqOld)
  raw,             \* fsnotify events queued on watcher.Events
  wpc,             \* watchFile goroutine: "select", "debounce", or "send" (blocked on ch)
  wAge,            \* time since the running debounce() made its context
  tickBuf,         \* ticks held by the channel of time.Tick (it has room for one)
  lostTick,        \* history: a tick fired during a cycle and was discarded
  pulsesOwed,      \* history: pulses of debounce() not yet started as a cycle
  sinceLast,       \* history: time since the last raw event arrived (capped)
  burstSpan,       \* history: time from the first to the last raw event of the burst
  windowInBurst,   \* history: the last debounce() was called for an event of the burst
  burstPulses,     \* history: pulses of the burst's debounce() calls (2 stands for more)
  burstIdle,       \* history: the notifier was waiting for events when the burst began
  marked,          \* history: where one raw event, or the pulse that follows it, is
  genInput,        \* the input file of two generateConfig calls
  genClusters,     \* the cluster list of both
  genPc,           \* "call" before, "return" after the two calls
  genFirst,        \* what the first call returned
  genSecond,       \* what the second call returned
  certClusters,    \* the cluster list of a writeClusterCerts call
  certBefore,      \* the credential files before that call
  certPc,          \* "call" before, "return" after that call
  certAfter,       \* the credential files after it
  certErr,         \* it returned an error
  reloadTarget,    \* the answers the target of a reloadPrometheus call gives
  reloadDeadline,  \* when the ctx of that call is done
  reloadPc,        \* "loop" at the loop's test, "select" in the backoff, "return"
  reloadNow,       \* the time since the call
  backoff,         \* reloadPrometheus' local backoff
  reloadContacts,  \* history: requests sent to the target
  reloadWaits,     \* history: the durations given to time.After, in order
  reloadErr,       \* what the call returned: "nil", or "ctx" for ctx.Err()
  oldClusters,     \* ConfigMap variant: the cluster list main keeps from tick to tick
  newClusterList,  \* ConfigMap variant: the list the last tick fetched
  hasChanged,      \* ConfigMap variant: hasChanged after the last tick's reconcile
  scraped,         \* ConfigMap variant: names the last tick made scrape configs for
  process          \* ConfigMap variant: "running", or ended by "panic" or "fatal"

producerVars == <<inputFile, mpc>>
loopVars == <<pc, force, currentClusters, newClusters, newConfig, ctxDone, posts, lastPost>>
fileVars == <<certFiles, artifact>>
cycleHistory == <<certFiles0, artifact0, done, cycleResult, errStage, prevFailed>>
startHistory == <<first, initials, okFetches>>
equalVars == <<eqOld, eqNew, eqPc, eqResult, eqReverse>>
watchVars == <<raw, wpc, wAge, tickBuf>>
watchHistory == <<lostTick, pulsesOwed, sinceLast, burstSpan, windowInBurst, burstPulses,
                   burstIdle>>

\* what the loop's stages leave alone: the producers' goroutines, single calls
generateVars == <<genInput, genClusters, genPc, genFirst, genSecond>>
certVars == <<certClusters, certBefore, certPc, certAfter, certErr>>
reloadVars == <<reloadTarget, reloadDeadline, reloadPc, reloadNow, backoff, reloadContacts,
                reloadWaits, reloadErr>>
reconcileVars == <<oldClusters, newClusterList, hasChanged, scraped, process>>
sideVars == <<equalVars, watchVars, watchHistory, marked, generateVars, certVars,
              reloadVars, reconcileVars>>

vars == <<producerVars, loopVars, fileVars, cycleHistory, startHistory, sideVars>>

\* a baseline that starts with a cluster in it
InitialClustersStale == <<ClusterA>>

\* `currentClusters := []*container.Cluster{}`
InitialClusters == <<>>

\* an initial send of true
InitialTickForced == TRUE

\* `ch <- false // Add an initial tick`
InitialTick == FALSE

StageOrder == <<"fetch", "certs", "gen", "write", "reload", "commit">>

InitLoop ==
  /\ inputFile = "v1"
  /\ mpc = "init"
  /\ pc = "idle"
  /\ force = FALSE
  /\ currentClusters = InitialClusters
  /\ newClusters = <<>>
  /\ newConfig = NoConfig
  /\ ctxDone = FALSE
  /\ posts = 0
  /\ lastPost = "none"
  /\ certFiles = [p \in CertPaths |-> NoFile]
  /\ artifact = NoConfig
  /\ certFiles0 = certFiles
  /\ artifact0 = artifact
  /\ done = <<>>
  /\ cycleResult = "none"
  /\ errStage = ""
  /\ prevFailed = FALSE
  /\ first = [cause |-> "none", forced |-> FALSE]
  /\ initials = 0
  /\ okFetches = 0

\* no raw event is marked
NoMark == [at |-> "none", pos |-> 0]

\* the mark is on the pos-th event of watcher.Events; on the debounce window that took
\* the event; on the pulse the notifier sends for that window; on that pulse with
\* watchAndTick
Mark(at, pos) == [at |-> at, pos |-> pos]

\* the mark once the first event of watcher.Events is received
Dequeued(m) ==
  IF m.at # "queue" THEN m
  ELSE IF m.pos = 1 THEN Mark("window", 0) ELSE Mark("queue", m.pos - 1)

\* the mark once a stage hands on what carries it
Moved(m, from, to) == IF m.at = from THEN Mark(to, 0) ELSE m

\* watchFile and time.Tick have just started: nothing queued, no timer running
InitWatch ==
  /\ raw = 0
  /\ wpc = "select"
  /\ wAge = 0
  /\ tickBuf = 0
  /\ lostTick = FALSE
  /\ pulsesOwed = 0
  /\ sinceLast = debounceDuration
  /\ burstSpan = 0
  /\ windowInBurst = FALSE
  /\ burstPulses = 0
  /\ burstIdle = FALSE
  /\ marked = NoMark

\* no call of clusterListEqual on its own
NoEqual ==
  /\ eqOld = <<>>
  /\ eqNew = <<>>
  /\ eqPc = "return"
  /\ eqResult = TRUE
  /\ eqReverse = TRUE

NoResult == [data |-> NoConfig, err |-> TRUE]

\* no call of generateConfig on its own
NoGenerate ==
  /\ genInput = "garbage"
  /\ genClusters = <<>>
  /\ genPc = "return"
  /\ genFirst = NoResult
  /\ genSecond = NoResult

\* no call of writeClusterCerts on its own
NoCerts ==
  /\ certClusters = <<>>
  /\ certBefore = [p \in CertPaths |-> NoFile]
  /\ certPc = "return"
  /\ certAfter = certBefore
  /\ certErr = FALSE

\* no call of reloadPrometheus on its own
NoReload ==
  /\ reloadTarget = <<"2xx">>
  /\ reloadDeadline = Time(0)
  /\ reloadPc = "return"
  /\ reloadNow = Time(0)
  /\ backoff = reloadInterval
  /\ reloadContacts = 0
  /\ reloadWaits = <<>>
  /\ reloadErr = "nil"

\* the ConfigMap variant's main before its first tick: `oldClusters := []container.Cluster{}`
InitReconcile ==
  /\ oldClusters = <<>>
  /\ newClusterList = <<>>
  /\ hasChanged = FALSE
  /\ scraped = {}
  /\ process = "running"

Init ==
  /\ InitLoop
  /\ InitWatch
  /\ NoEqual
  /\ NoGenerate
  /\ NoCerts
  /\ NoReload
  /\ InitReconcile

\* ------------------------------------------------------------ the producers
\* the watched input file is rewritten by its owner
EditInput ==
  /\ \E content \in InputFiles \ {inputFile} : inputFile' = content
  /\ UNCHANGED <<mpc, loopVars, fileVars, cycleHistory, startHistory, sideVars>>

\* the value watchAndTick sends on ch for each cause of a send
Sending(cause) ==
  CASE cause = "initial" -> InitialTick
    [] cause = "pulse" -> TRUE
    [] cause = "tick" -> FALSE

\* ----------------------------------------------------------------- the loop
\* a send of watchAndTick on the unbuffered ch meets `for force := range updateChan`:
\* the multiplexer goes on to its select, loop(force) starts
Receive(cause) ==
  /\ pc = "idle"
  /\ mpc' = "select"
  /\ force' = Sending(cause)
  /\ pc' = "fetch"
  /\ done' = <<>>
  /\ posts' = 0
  /\ cycleResult' = "running"
  /\ errStage' = ""
  /\ prevFailed' = (cycleResult = "err")
  /\ first' = IF first.cause = "none"
              THEN [cause |-> cause, forced |-> Sending(cause)]
              ELSE first
  /\ initials' = IF cause = "initial" /\ initials < 2 THEN initials + 1 ELSE initials
  /\ UNCHANGED <<inputFile, currentClusters, newClusters, newConfig,
                 ctxDone, lastPost, fileVars, certFiles0, artifact0, okFetches,
                 equalVars>>

\* watchAndTick: `ch <- false // Add an initial tick`
MuxInitial ==
  /\ mpc = "init"
  /\ Receive("initial")
  /\ UNCHANGED <<watchVars, watchHistory, marked, generateVars, certVars, reloadVars,
                 reconcileVars>>

\* watchAndTick: `case <-wch: ch <- true`, a debounce pulse of watchFile
MuxPulse ==
  /\ mpc = "select"
  /\ Receive("pulse")
  /\ UNCHANGED <<watchVars, watchHistory, marked, generateVars, certVars, reloadVars,
                 reconcileVars>>

\* watchAndTick: `case <-tch: ch <- false`, a tick of time.Tick
MuxTick ==
  /\ mpc = "select"
  /\ Receive("tick")
  /\ UNCHANGED <<watchVars, watchHistory, marked, generateVars, certVars, reloadVars,
                 reconcileVars>>

\* loop returns: back to the range over updateChan; certs and config are the files as
\* the cycle leaves them
Finish(result, stage, certs, config) ==
  /\ pc' = "idle"
  /\ cycleResult' = result
  /\ errStage' = stage
  /\ prevFailed' = FALSE
  /\ force' = FALSE
  /\ posts' = 0
  /\ lastPost' = "none"
  /\ newClusters' = <<>>
  /\ newConfig' = NoConfig
  /\ ctxDone' = FALSE
  /\ certFiles0' = certs
  /\ artifact0' = config

\* the stage returned success: on to the next one
Continue(stage, next) ==
  /\ pc' = next
  /\ done' = Append(done, stage)
  /\ UNCHANGED <<force, cycleResult, errStage, prevFailed, certFiles0, artifact0>>

\* findClusters returns an error
FetchFail ==
  /\ pc = "fetch"
  /\ Finish("err", "fetch", certFiles, artifact)
  /\ UNCHANGED <<producerVars, currentClusters, fileVars, done, startHistory, sideVars>>

\* findClusters returns a cluster list
FetchOk ==
  /\ pc = "fetch"
  /\ \E list \in ClusterLists : newClusters' = list
  /\ Continue("fetch", "diff")
  /\ okFetches' = IF okFetches < 2 THEN okFetches + 1 ELSE okFetches
  /\ UNCHANGED <<producerVars, currentClusters, newConfig, ctxDone, posts, lastPost,
                 fileVars, first, initials, sideVars>>

\* the short circuit without its test of force
shortCircuitUnforced(forced, old, new) == clusterListEqual(old, new)

\* `if !force { changes := !clusterListEqual(...); if !changes { return nil } }`
shortCircuit(forced, old, new) == ~forced /\ clusterListEqual(old, new)

Diff ==
  /\ pc = "diff"
  /\ IF shortCircuit(force, currentClusters, newClusters)
     THEN /\ Finish("skip", "", certFiles, artifact)
          /\ UNCHANGED done
     ELSE /\ pc' = "certs"
          /\ UNCHANGED <<force, newClusters, newConfig, ctxDone, posts, lastPost,
                         cycleHistory>>
  /\ UNCHANGED <<producerVars, currentClusters, fileVars, startHistory, sideVars>>

\* the stage with its error dropped: the loop goes on to generateConfig
WriteCertsIgnoringError ==
  /\ pc = "certs"
  /\ \E failAt \in 0..(3 * Len(newClusters)) :
       LET r == writeClusterCerts(certFiles, newClusters, failAt, "openerr")
       IN certFiles' = r.files
  /\ Continue("certs", "gen")
  /\ UNCHANGED <<newClusters, newConfig, ctxDone, posts, lastPost>>
  /\ UNCHANGED <<producerVars, currentClusters, artifact, startHistory, sideVars>>

\* `err = writeClusterCerts(certOutDir, newClusters)`; a credential file that cannot be
\* written fails at its open (certOutDir missing or not writable)
WriteCerts ==
  /\ pc = "certs"
  /\ \E failAt \in 0..(3 * Len(newClusters)) :
       LET r == writeClusterCerts(certFiles, newClusters, failAt, "openerr")
       IN /\ certFiles' = r.files
          /\ IF r.err
             THEN Finish("err", "certs", r.files, artifact) /\ UNCHANGED done
             ELSE Continue("certs", "gen")
                  /\ UNCHANGED <<newClusters, newConfig, ctxDone, posts, lastPost>>
  /\ UNCHANGED <<producerVars, currentClusters, artifact, startHistory, sideVars>>

\* the stage with its error dropped: the loop goes on to write the empty result
GenConfigIgnoringError ==
  /\ pc = "gen"
  /\ \E readable \in BOOLEAN, orders \in [1..Len(newClusters) -> RoleOrders] :
       newConfig' = generateConfig(inputFile, readable, newClusters, orders).data
  /\ Continue("gen", "write")
  /\ UNCHANGED <<newClusters, ctxDone, posts, lastPost>>
  /\ UNCHANGED <<producerVars, currentClusters, fileVars, startHistory, sideVars>>

\* the stage opening (and so truncating) the output file before it generates
GenConfigTruncatesFirst ==
  /\ pc = "gen"
  /\ \E readable \in BOOLEAN, orders \in [1..Len(newClusters) -> RoleOrders] :
       LET g == generateConfig(inputFile, readable, newClusters, orders)
       IN IF g.err
          THEN /\ artifact' = TruncatedConfig
               /\ Finish("err", "gen", certFiles, TruncatedConfig)
               /\ UNCHANGED done
          ELSE /\ newConfig' = g.data
               /\ Continue("gen", "write")
               /\ UNCHANGED <<artifact, newClusters, ctxDone, posts, lastPost>>
  /\ UNCHANGED <<producerVars, currentClusters, certFiles, startHistory, sideVars>>

\* `newConfig, err := generateConfig(configInputFile, certReferenceDir, newClusters)`
GenConfig ==
  /\ pc = "gen"
  /\ \E readable \in BOOLEAN, orders \in [1..Len(newClusters) -> RoleOrders] :
       LET g == generateConfig(inputFile, readable, newClusters, orders)
       IN IF g.err
          THEN Finish("err", "gen", certFiles, artifact) /\ UNCHANGED done
          ELSE /\ newConfig' = g.data
               /\ Continue("gen", "write")
               /\ UNCHANGED <<newClusters, ctxDone, posts, lastPost>>
  /\ UNCHANGED <<producerVars, currentClusters, fileVars, startHistory, sideVars>>

\* `err = ioutil.WriteFile(configOutputFile, newConfig, 0600)`
WriteArtifact ==
  /\ pc = "write"
  /\ \E o \in WriteOutcomes :
       LET w == WriteFile(artifact, newConfig, TruncatedConfig, o)
       IN /\ artifact' = w.content
          /\ IF w.err
             THEN Finish("err", "write", certFiles, w.content) /\ UNCHANGED done
             ELSE Continue("write", "reload")
                  /\ UNCHANGED <<newClusters, newConfig, ctxDone, posts, lastPost>>
  /\ UNCHANGED <<producerVars, currentClusters, certFiles, startHistory, sideVars>>

\* the cycle's context.WithTimeout(ctx, pollInterval) expires; of the stages after the
\* fetch only reloadPrometheus looks at it
Deadline ==
  /\ pc \in {"reload", "backoff"}
  /\ ~ctxDone
  /\ ctxDone' = TRUE
  /\ UNCHANGED <<producerVars, pc, force, currentClusters, newClusters, newConfig, posts,
                 lastPost, fileVars, cycleHistory, startHistory, sideVars>>

\* what a request that got an answer was answered with: ctxhttp.Post, as http.Client.Do,
\* returns err == nil for every response, whatever its status code
Responses == {"2xx", "non2xx"}

\* reloadPrometheus: `ctx.Err() == nil`, then ctxhttp.Post returns err == nil;
\* `_, err :=` drops the response, `return nil`
ReloadPostOk ==
  /\ pc = "reload"
  /\ ~ctxDone
  /\ posts < MaxAttempts
  /\ posts' = posts + 1
  /\ \E response \in Responses : lastPost' = response
  /\ Continue("reload", "commit")
  /\ UNCHANGED <<producerVars, currentClusters, newClusters, newConfig, ctxDone,
                 fileVars, startHistory, sideVars>>

\* reloadPrometheus: `ctx.Err() == nil`, then ctxhttp.Post returns an error
ReloadPostFail ==
  /\ pc = "reload"
  /\ ~ctxDone
  /\ posts < MaxAttempts
  /\ posts' = posts + 1
  /\ lastPost' = "error"
  /\ pc' = "backoff"
  /\ UNCHANGED <<producerVars, force, currentClusters, newClusters, newConfig, ctxDone,
                 fileVars, cycleHistory, startHistory, sideVars>>

\* reloadPrometheus: the select on time.After(backoff) and ctx.Done() returns
ReloadBackoff ==
  /\ pc = "backoff"
  /\ pc' = "reload"
  /\ UNCHANGED <<producerVars, force, currentClusters, newClusters, newConfig, ctxDone,
                 posts, lastPost, fileVars, cycleHistory, startHistory, sideVars>>

\* the baseline set before the reload's error is looked at
ReloadExpiredCommitted ==
  /\ pc = "reload"
  /\ ctxDone
  /\ currentClusters' = newClusters
  /\ Finish("err", "reload", certFiles, artifact)
  /\ UNCHANGED <<producerVars, fileVars, done, startHistory, sideVars>>

\* reloadPrometheus: `ctx.Err() != nil`, `return ctx.Err()`
ReloadExpired ==
  /\ pc = "reload"
  /\ ctxDone
  /\ Finish("err", "reload", certFiles, artifact)
  /\ UNCHANGED <<producerVars, currentClusters, fileVars, done, startHistory, sideVars>>

\* a loop that returns nil without setting the baseline
CommitKeepingBaseline ==
  /\ pc = "commit"
  /\ done' = Append(done, "commit")
  /\ Finish("ok", "", certFiles, artifact)
  /\ UNCHANGED <<producerVars, currentClusters, fileVars, startHistory, sideVars>>

\* `currentClusters = newClusters; return nil`
Commit ==
  /\ pc = "commit"
  /\ currentClusters' = newClusters
  /\ done' = Append(done, "commit")
  /\ Finish("ok", "", certFiles, artifact)
  /\ UNCHANGED <<producerVars, fileVars, startHistory, sideVars>>

\* -------------------------------------- the notifier and the multiplexer
\* everything of Spec that the producers' goroutines leave alone
loopSide == <<inputFile, loopVars, fileVars, cycleHistory, startHistory, equalVars,
              generateVars, certVars, reloadVars, reconcileVars>>

Min(a, b) == IF a < b THEN a ELSE b

\* fsnotify queues an event of the watched file on watcher.Events; mark says whether
\* it is the event the history follows
Arrives(mark) ==
  /\ raw < MaxRaw
  /\ raw' = raw + 1
  /\ sinceLast' = 0
  /\ IF sinceLast >= debounceDuration
     THEN /\ burstSpan' = 0
          /\ windowInBurst' = FALSE
          /\ burstPulses' = 0
          /\ burstIdle' = (wpc = "select" /\ raw = 0)
     ELSE /\ burstSpan' = Min(debounceDuration, burstSpan + sinceLast)
          /\ UNCHANGED <<windowInBurst, burstPulses, burstIdle>>
  /\ marked' = IF mark THEN Mark("queue", raw + 1) ELSE marked
  /\ UNCHANGED <<mpc, wpc, wAge, tickBuf, lostTick, pulsesOwed, loopSide>>

RawEvent == Arrives(FALSE)

\* an event arrives that the history follows from here on, none being followed yet
RawEventMarked == marked.at = "none" /\ Arrives(TRUE)

\* watchFile's goroutine: `case <-watcher.Events:`, debounce() is called and makes
\* `context.WithTimeout(ctx, debounceDuration)`
WatchEvent ==
  /\ wpc = "select"
  /\ raw > 0
  /\ raw' = raw - 1
  /\ wpc' = "debounce"
  /\ wAge' = 0
  /\ windowInBurst' = TRUE
  /\ marked' = Dequeued(marked)
  /\ UNCHANGED <<mpc, tickBuf, lostTick, pulsesOwed, sinceLast, burstSpan, burstPulses,
                 burstIdle, loopSide>>

\* a swallowed event that makes a new context for the window
DebounceEventRestarting ==
  /\ wpc = "debounce"
  /\ raw > 0
  /\ raw' = raw - 1
  /\ wAge' = 0
  /\ marked' = Dequeued(marked)
  /\ UNCHANGED <<mpc, wpc, tickBuf, watchHistory, loopSide>>

\* debounce(): `case e := <-watcher.Events:`, the event is logged and the loop goes round;
\* the context made before the loop is not touched
DebounceEvent ==
  /\ wpc = "debounce"
  /\ raw > 0
  /\ raw' = raw - 1
  /\ marked' = Dequeued(marked)
  /\ UNCHANGED <<mpc, wpc, wAge, tickBuf, watchHistory, loopSide>>

\* a debounce() that returns at its first look, whatever its context says
DebounceDoneAtOnce ==
  /\ wpc = "debounce"
  /\ wpc' = "send"
  /\ wAge' = 0
  /\ pulsesOwed' = pulsesOwed + 1
  /\ burstPulses' = IF windowInBurst THEN Min(2, burstPulses + 1) ELSE burstPulses
  /\ marked' = Moved(marked, "window", "notifier")
  /\ UNCHANGED <<mpc, raw, tickBuf, lostTick, sinceLast, burstSpan, windowInBurst, burstIdle,
                 loopSide>>

\* a debounce() that, its window over, throws away the events still on watcher.Events
DebounceDoneDraining ==
  /\ wpc = "debounce"
  /\ wAge = debounceDuration
  /\ wpc' = "send"
  /\ wAge' = 0
  /\ raw' = 0
  /\ pulsesOwed' = pulsesOwed + 1
  /\ burstPulses' = IF windowInBurst THEN Min(2, burstPulses + 1) ELSE burstPulses
  /\ marked' = Moved(marked, "window", "notifier")
  /\ UNCHANGED <<mpc, tickBuf, lostTick, sinceLast, burstSpan, windowInBurst, burstIdle,
                 loopSide>>

\* debounce(): `case <-ctx.Done(): return`, and the goroutine comes to `ch <- struct{}{}`
DebounceDone ==
  /\ wpc = "debounce"
  /\ wAge = debounceDuration
  /\ wpc' = "send"
  /\ wAge' = 0
  /\ pulsesOwed' = pulsesOwed + 1
  /\ burstPulses' = IF windowInBurst THEN Min(2, burstPulses + 1) ELSE burstPulses
  /\ marked' = Moved(marked, "window", "notifier")
  /\ UNCHANGED <<mpc, raw, tickBuf, lostTick, sinceLast, burstSpan, windowInBurst, burstIdle,
                 loopSide>>

\* a send on ch that gives up when watchAndTick is not receiving
TakePulseOrDrop ==
  /\ wpc = "send"
  /\ wpc' = "select"
  /\ mpc' = IF mpc = "select" THEN "sendPulse" ELSE mpc
  /\ marked' = IF mpc = "select" THEN Moved(marked, "notifier", "multiplexer") ELSE marked
  /\ UNCHANGED <<raw, wAge, tickBuf, watchHistory, loopSide>>

\* `ch <- struct{}{}` of watchFile meets `case <-wch:` of watchAndTick, which comes to
\* its `ch <- true`
TakePulse ==
  /\ wpc = "send"
  /\ mpc = "select"
  /\ wpc' = "select"
  /\ mpc' = "sendPulse"
  /\ marked' = Moved(marked, "notifier", "multiplexer")
  /\ UNCHANGED <<raw, wAge, tickBuf, watchHistory, loopSide>>

\* a ticker whose channel has room for two ticks
TickFiresRoomForTwo ==
  /\ tickBuf' = Min(2, tickBuf + 1)
  /\ lostTick' = (lostTick \/ (tickBuf = 2 /\ pc # "idle"))
  /\ UNCHANGED <<mpc, raw, wpc, wAge, pulsesOwed, sinceLast, burstSpan, windowInBurst,
                 burstPulses, burstIdle, marked, loopSide>>

\* the ticker of time.Tick(interval) fires: its channel holds one tick, and a tick that
\* finds it full is discarded
TickFires ==
  /\ tickBuf' = 1
  /\ lostTick' = (lostTick \/ (tickBuf = 1 /\ pc # "idle"))
  /\ UNCHANGED <<mpc, raw, wpc, wAge, pulsesOwed, sinceLast, burstSpan, windowInBurst,
                 burstPulses, burstIdle, marked, loopSide>>

\* watchAndTick: `case <-tch:`, it comes to its `ch <- false`
TakeTick ==
  /\ mpc = "select"
  /\ tickBuf = 1
  /\ tickBuf' = 0
  /\ mpc' = "sendTick"
  /\ UNCHANGED <<raw, wpc, wAge, watchHistory, marked, loopSide>>

\* a multiplexer whose two arms both send false
CauseAlwaysTick(at) == "tick"

\* what watchAndTick is sending on ch
Cause(at) == IF at = "sendPulse" THEN "pulse" ELSE "tick"

\* `ch <- true` or `ch <- false` of watchAndTick meets the loop's range over updateChan
Deliver ==
  /\ mpc \in {"sendPulse", "sendTick"}
  /\ Receive(Cause(mpc))
  /\ pulsesOwed' = IF mpc = "sendPulse" THEN pulsesOwed - 1 ELSE pulsesOwed
  /\ lostTick' = IF mpc = "sendTick" THEN FALSE ELSE lostTick
  /\ marked' = IF mpc = "sendPulse" THEN Moved(marked, "multiplexer", "none") ELSE marked
  /\ UNCHANGED <<watchVars, sinceLast, burstSpan, windowInBurst, burstPulses, burstIdle,
                 generateVars, certVars, reloadVars, reconcileVars>>

\* loop(force) returns, with an error or without; what it did to the files and the
\* baseline is left out here
CycleReturns ==
  /\ pc # "idle"
  /\ \E result \in {"ok", "skip", "err"} :
       Finish(result, IF result = "err" THEN "fetch" ELSE "", certFiles, artifact)
  /\ UNCHANGED <<producerVars, currentClusters, fileVars, done, startHistory, sideVars>>

\* a second goes by. A goroutine that can receive an event or whose timeout has fired
\* runs before the next second does.
Elapse ==
  /\ ~(wpc = "debounce" /\ wAge = debounceDuration)
  /\ ~(raw > 0 /\ wpc \in {"select", "debounce"})
  /\ wAge' = IF wpc = "debounce" THEN wAge + 1 ELSE wAge
  /\ sinceLast' = Min(debounceDuration, sinceLast + 1)
  /\ UNCHANGED <<mpc, raw, wpc, tickBuf, lostTick, pulsesOwed, burstSpan, windowInBurst,
                 burstPulses, burstIdle, marked, loopSide>>

NextTrigger ==
  \/ RawEvent
  \/ WatchEvent
  \/ DebounceEvent
  \/ DebounceDone
  \/ TakePulse
  \/ TickFires
  \/ TakeTick
  \/ MuxInitial
  \/ Deliver
  \/ CycleReturns
  \/ Elapse

SpecTrigger == Init /\ [][NextTrigger]_vars

\* the goroutines run and time passes: a goroutine that can receive or whose timeout
\* has fired goes on, a cycle begun returns, a send of watchAndTick is taken once the
\* loop is back at its range; the select of watchAndTick, which picks at random among
\* its ready cases, does not pass a waiting pulse over for ever; and events without
\* end do not all arrive within one second
FairnessTrigger ==
  /\ WF_vars(MuxInitial)
  /\ WF_vars(WatchEvent)
  /\ WF_vars(DebounceEvent)
  /\ WF_vars(DebounceDone)
  /\ SF_vars(TakePulse)
  /\ WF_vars(Deliver)
  /\ WF_vars(CycleReturns)
  /\ SF_vars(Elapse)
  /\ []<><<RawEvent \/ RawEventMarked>>_vars => []<><<Elapse>>_vars

NextTriggerLive ==
  \/ NextTrigger
  \/ RawEventMarked

SpecTriggerLive == Init /\ [][NextTriggerLive]_vars /\ FairnessTrigger

\* ------------------------------------------------ a clusterListEqual call
InitEqual ==
  /\ InitLoop
  /\ InitWatch
  /\ NoReload
  /\ InitReconcile
  /\ NoGenerate
  /\ NoCerts
  /\ eqOld \in EqualLists
  /\ eqNew \in EqualLists
  /\ eqPc = "call"
  /\ eqResult = FALSE
  /\ eqReverse = FALSE

\* clusterListEqual(eqOld, eqNew) and the call with the arguments swapped return
CallEqual ==
  /\ eqPc = "call"
  /\ eqResult' = clusterListEqual(eqOld, eqNew)
  /\ eqReverse' = clusterListEqual(eqNew, eqOld)
  /\ eqPc' = "return"
  /\ UNCHANGED <<eqOld, eqNew, producerVars, loopVars, fileVars, cycleHistory, startHistory,
                 watchVars, watchHistory, marked, generateVars, certVars, reloadVars,
                 reconcileVars>>

NextEqual == CallEqual

SpecEqual == InitEqual /\ [][NextEqual]_vars

\* ---------------------------------------------------- generateConfig calls
InitGenerate ==
  /\ InitLoop
  /\ InitWatch
  /\ NoReload
  /\ InitReconcile
  /\ NoEqual
  /\ NoCerts
  /\ genInput \in GenInputs
  /\ genClusters \in GenLists
  /\ genPc = "call"
  /\ genFirst = NoResult
  /\ genSecond = NoResult

\* generateConfig(genInput, certDir, genClusters) returns, twice; each `range GetRoles()`
\* of each call visits the roles in an order of its own
CallGenerate ==
  /\ genPc = "call"
  /\ \E readable \in BOOLEAN,
        orders1 \in [1..Len(genClusters) -> RoleOrders],
        orders2 \in [1..Len(genClusters) -> RoleOrders] :
       /\ genFirst' = generateConfig(genInput, readable, genClusters, orders1)
       /\ genSecond' = generateConfig(genInput, readable, genClusters, orders2)
  /\ genPc' = "return"
  /\ UNCHANGED <<genInput, genClusters, producerVars, loopVars, fileVars, cycleHistory,
                 startHistory, equalVars, watchVars, watchHistory, marked, certVars,
                 reloadVars, reconcileVars>>

NextGenerate == CallGenerate

SpecGenerate == InitGenerate /\ [][NextGenerate]_vars

\* ------------------------------------------------ a writeClusterCerts call
\* bytes a credential file holds from an earlier cycle
OldBytes == "Z"

InitCerts ==
  /\ InitLoop
  /\ InitWatch
  /\ NoReload
  /\ InitReconcile
  /\ NoEqual
  /\ NoGenerate
  /\ certClusters \in CertLists
  /\ certBefore \in {[p \in CertPaths |-> NoFile], [p \in CertPaths |-> OldBytes]}
  /\ certPc = "call"
  /\ certAfter = certBefore
  /\ certErr = FALSE

\* writeClusterCerts(certOutDir, certClusters) returns; one of its WriteFile calls may
\* fail at its open
CallCerts ==
  /\ certPc = "call"
  /\ \E failAt \in 0..(3 * Len(certClusters)) :
       LET r == writeClusterCerts(certBefore, certClusters, failAt, "openerr")
       IN /\ certAfter' = r.files
          /\ certErr' = r.err
  /\ certPc' = "return"
  /\ UNCHANGED <<certClusters, certBefore, producerVars, loopVars, fileVars, cycleHistory,
                 startHistory, equalVars, watchVars, watchHistory, marked, generateVars,
                 reloadVars, reconcileVars>>

NextCerts == CallCerts

SpecCerts == InitCerts /\ [][NextCerts]_vars

\* ------------------------------------------------ a reloadPrometheus call
InitReload ==
  /\ InitLoop
  /\ InitWatch
  /\ InitReconcile
  /\ NoEqual
  /\ NoGenerate
  /\ NoCerts
  /\ reloadTarget \in Targets
  /\ reloadDeadline \in Deadlines
  /\ reloadPc = "loop"
  /\ reloadNow = Time(0)
  /\ backoff = reloadInterval
  /\ reloadContacts = 0
  /\ reloadWaits = <<>>
  /\ reloadErr = "nil"

\* everything but the call of reloadPrometheus
reloadSide == <<producerVars, loopVars, fileVars, cycleHistory, startHistory, equalVars,
                watchVars, watchHistory, marked, generateVars, certVars, reconcileVars>>

\* the answer of the target to its n-th request
AnswerOf(script, n) == script[Min(n, Len(script))]

\* `ctx.Err() == nil`, then ctxhttp.Post comes back: with the target's answer, or with
\* the context's error when the deadline fires first. `if err == nil { return nil }`;
\* else the select on time.After(backoff) and ctx.Done() is entered
PostReturns ==
  /\ reloadPc = "loop"
  /\ TimeLess(reloadNow, reloadDeadline)
  /\ reloadContacts' = reloadContacts + 1
  /\ \E d \in PostTimes :
       LET back == After(reloadNow, d)
           cut == ~TimeLess(back, reloadDeadline)
           answer == IF cut THEN "error" ELSE AnswerOf(reloadTarget, reloadContacts + 1)
       IN /\ reloadNow' = Earlier(back, reloadDeadline)
          /\ IF answer # "error"
             THEN /\ reloadPc' = "return"
                  /\ reloadErr' = "nil"
                  /\ UNCHANGED reloadWaits
             ELSE /\ reloadPc' = "select"
                  /\ reloadWaits' = Append(reloadWaits, backoff)
                  /\ UNCHANGED reloadErr
  /\ UNCHANGED <<reloadTarget, reloadDeadline, backoff, reloadSide>>

\* the select returns, on the timer or on ctx.Done();
\* `backoff = time.Duration(float64(backoff) * reloadBackoff)`
BackoffElapses ==
  /\ reloadPc = "select"
  /\ reloadNow' = Earlier(After(reloadNow, backoff), reloadDeadline)
  /\ backoff' = NextBackoff(backoff)
  /\ reloadPc' = "loop"
  /\ UNCHANGED <<reloadTarget, reloadDeadline, reloadContacts, reloadWaits, reloadErr,
                 reloadSide>>

\* `ctx.Err() != nil`: the loop ends, `return ctx.Err()`
ContextDone ==
  /\ reloadPc = "loop"
  /\ ~TimeLess(reloadNow, reloadDeadline)
  /\ reloadPc' = "return"
  /\ reloadErr' = "ctx"
  /\ UNCHANGED <<reloadTarget, reloadDeadline, reloadNow, backoff, reloadContacts,
                 reloadWaits, reloadSide>>

NextReload ==
  \/ PostReturns
  \/ BackoffElapses
  \/ ContextDone

SpecReload == InitReload /\ [][NextReload]_vars

\* ------------------------------------- the ConfigMap variant of the main loop
\* a credential of the list does not decode
Malformed(list) ==
  \E i \in 1..Len(list) :
    \/ DecodeString(list[i].Ca).err
    \/ DecodeString(list[i].Cert).err
    \/ DecodeString(list[i].Key).err

\* everything but the ConfigMap variant's main
reconcileSide == <<producerVars, loopVars, fileVars, cycleHistory, startHistory, equalVars,
                   watchVars, watchHistory, marked, generateVars, certVars, reloadVars>>

\* `case <-ticker.C:`: the zones' clusters are fetched, oldClusters is reconciled with
\* them; `if !hasChanged { break }`; else scrape configs are made for each cluster of
\* oldClusters, a credential that does not decode ending the process (log.Fatal), and
\* the ConfigMaps are written and Prometheus is reloaded, which leaves oldClusters alone
TickReconcile ==
  /\ process = "running"
  /\ \E fetched \in FetchedLists :
       LET r == reconcile(oldClusters, fetched)
       IN /\ newClusterList' = fetched
          /\ oldClusters' = r.oldClusters
          /\ hasChanged' = r.hasChanged
          /\ IF r.panic
             THEN process' = "panic" /\ UNCHANGED scraped
             ELSE IF ~r.hasChanged
             THEN UNCHANGED <<process, scraped>>
             ELSE IF Malformed(r.oldClusters)
             THEN process' = "fatal" /\ UNCHANGED scraped
             ELSE process' = "running" /\ scraped' = NameSet(r.oldClusters)
  /\ UNCHANGED reconcileSide

\* the fetch of the zones or of a zone's clusters fails: log.Fatal ends the process
FetchFatal ==
  /\ process = "running"
  /\ process' = "fatal"
  /\ UNCHANGED <<oldClusters, newClusterList, hasChanged, scraped, reconcileSide>>

NextReconcile ==
  \/ TickReconcile
  \/ FetchFatal

SpecReconcile == Init /\ [][NextReconcile]_vars

Next ==
  \/ EditInput
  \/ MuxInitial
  \/ MuxPulse
  \/ MuxTick
  \/ FetchFail
  \/ FetchOk
  \/ Diff
  \/ WriteCerts
  \/ GenConfig
  \/ WriteArtifact
  \/ Deadline
  \/ ReloadPostOk
  \/ ReloadPostFail
  \/ ReloadBackoff
  \/ ReloadExpired
  \/ Commit

Spec == Init /\ [][Next]_vars

\* a step of the main goroutine inside loop(force), the firing of the cycle's deadline
\* included
LoopStep ==
  \/ FetchFail
  \/ FetchOk
  \/ Diff
  \/ WriteCerts
  \/ GenConfig
  \/ WriteArtifact
  \/ Deadline
  \/ ReloadPostOk
  \/ ReloadPostFail
  \/ ReloadBackoff
  \/ ReloadExpired
  \/ Commit

\* the goroutines run: a call in progress returns and a timer set fires, so a cycle
\* begun goes on; the initial send happens; the ticker fires every pollInterval, and
\* the select of watchAndTick, which picks at random among its ready cases, does not
\* pass a waiting tick over for ever
Fairness ==
  /\ WF_vars(LoopStep)
  /\ WF_vars(MuxInitial)
  /\ SF_vars(MuxTick)

SpecLive == Spec /\ Fairness

\* ------------------------------------------------------------------ claims

\* the step in which loop(force) returns an error
CycleFails == cycleResult = "running" /\ cycleResult' = "err"

\* the step in which the loop leaves its differ, one way or the other
DifferDecides == pc = "diff" /\ pc' # pc

\* the stages that have returned success when the loop stands at stage p
Before(p) ==
  CASE p = "fetch" -> <<>>
    [] p = "diff" -> <<"fetch">>
    [] p = "certs" -> <<"fetch">>
    [] p = "gen" -> <<"fetch", "certs">>
    [] p = "write" -> <<"fetch", "certs", "gen">>
    [] p \in {"reload", "backoff"} -> <<"fetch", "certs", "gen", "write">>
    [] p = "commit" -> <<"fetch", "certs", "gen", "write", "reload">>

\* the bytes file <name>-<type>.pem holds once every cluster of the list is written
Credential(cluster, type) ==
  CASE type = "ca" -> cluster.Ca
    [] type = "cert" -> cluster.Cert
    [] type = "key" -> cluster.Key

LastOf(list, name) ==
  list[CHOOSE i \in 1..Len(list) :
         /\ list[i].Name = name
         /\ \A j \in (i + 1)..Len(list) : list[j].Name # name]

CredentialsWritten(list, files) ==
  \A name \in NameSet(list), type \in CertTypes :
    files[<<name, type>>] = DecodeString(Credential(LastOf(list, name), type)).bytes

\* C1: the baseline changes only in the last step of a cycle that wrote the artifact and
\* whose reloadPrometheus returned success; no other step changes it.
BaselineOnlyAfterReload ==
  [][currentClusters' # currentClusters =>
       /\ pc = "commit"
       /\ pc' = "idle"
       /\ cycleResult' = "ok"
       /\ done = <<"fetch", "certs", "gen", "write", "reload">>
       /\ posts >= 1
       /\ artifact = newConfig
       /\ newConfig.state = "full"
       /\ currentClusters' = newClusters]_vars

\* a cycle ran to its end and committed cluster b as the baseline
BaselineCommitted ==
  /\ pc = "idle"
  /\ cycleResult = "ok"
  /\ currentClusters = <<ClusterB>>
  /\ artifact.state = "full"

\* C2: a stage that returns an error ends the cycle there: the loop is back waiting on
\* the trigger channel, no further stage has run, the baseline is what it was; a
\* credential that does not decode and an input that does not parse are such errors.
ErrorAbortsCycle ==
  [][/\ CycleFails =>
          /\ pc \in {"fetch", "certs", "gen", "write", "reload"}
          /\ errStage' = pc
          /\ pc' = "idle"
          /\ done' = done
          /\ done = Before(pc)
          /\ currentClusters' = currentClusters
          /\ mpc' = "select"
     /\ (pc = "certs" /\ pc' # pc /\ Malformed(newClusters)) => CycleFails
     /\ (pc = "gen" /\ pc' # pc /\ inputFile = "garbage") => CycleFails
     /\ (pc = "reload" /\ pc' # pc /\ ctxDone) => CycleFails]_vars

\* a cycle failed at config generation and the loop waits for the next trigger
FailedCycleWaiting ==
  /\ pc = "idle"
  /\ cycleResult = "err"
  /\ errStage = "gen"
  /\ currentClusters # <<>>

\* C3 as stated: a cycle that fails at any stage leaves the artifact and the credential
\* files as they were when it began.
FailedCycleLeavesFiles ==
  [][CycleFails => artifact' = artifact0 /\ certFiles' = certFiles0]_vars

\* C3 as amended: a cycle that fails at the fetch leaves the artifact and the credential
\* files as they were; one that fails at the credential write or at the config
\* generation leaves the artifact as it was.
FailedCycleLeavesEarlierFiles ==
  [][CycleFails =>
       /\ errStage' = "fetch" => certFiles' = certFiles0
       /\ errStage' \in {"fetch", "certs", "gen"} => artifact' = artifact0]_vars

\* a cycle failed at the credential write after it replaced a's ca file; the artifact of
\* an earlier cycle is in place
FailedAfterPartialCredentials ==
  /\ pc = "idle"
  /\ cycleResult = "err"
  /\ errStage = "certs"
  /\ certFiles[<<"a", "ca">>] = "B"
  /\ certFiles[<<"a", "cert">>] = "A"
  /\ artifact.state = "full"

\* C4: the stages of a cycle succeed in the order fetch, credential write, config
\* generation, artifact write, reload, commit, each entered with exactly the earlier ones
\* done; once a reload request is sent the credential files of every fetched cluster and
\* the generated artifact are on disk.
StagesInOrder ==
  /\ pc # "idle" => done = Before(pc)
  /\ pc = "idle" => \E n \in 0..Len(StageOrder) : done = SubSeq(StageOrder, 1, n)
  /\ posts > 0 =>
       /\ pc \in {"reload", "backoff", "commit"}
       /\ newConfig.state = "full"
       /\ artifact = newConfig
       /\ CredentialsWritten(newClusters, certFiles)

\* a reload request is out for a fetched cluster
ReloadRequested ==
  /\ pc = "backoff"
  /\ posts = 1
  /\ newClusters = <<ClusterB>>
  /\ currentClusters = <<ClusterA>>

\* C5: a soft trigger whose fetch has the baseline's name set ends the cycle at the
\* differ: no credential file and no artifact written, no reload request, same baseline.
SoftUnchangedSkips ==
  [][DifferDecides /\ ~force /\ NameSet(newClusters) = NameSet(currentClusters) =>
       /\ pc' = "idle"
       /\ cycleResult' = "skip"
       /\ done' = <<"fetch">>
       /\ certFiles' = certFiles0
       /\ artifact' = artifact0
       /\ posts = 0
       /\ posts' = 0
       /\ currentClusters' = currentClusters]_vars

\* a soft cycle was skipped with a baseline and an artifact in place
SoftSkipped ==
  /\ pc = "idle"
  /\ cycleResult = "skip"
  /\ currentClusters = <<ClusterA>>
  /\ artifact.state = "full"

\* C6: a forced trigger whose fetch succeeds goes on to the credential write whatever
\* the comparison with the baseline says, and when no later stage fails it runs them all.
ForcedAlwaysProceeds ==
  [][/\ DifferDecides /\ force => pc' = "certs" /\ cycleResult' = "running"
     /\ (force /\ cycleResult = "running" /\ cycleResult' = "ok") =>
          /\ done' = StageOrder
          /\ posts >= 1
          /\ artifact = newConfig]_vars

\* a forced cycle with the baseline's own clusters has reloaded
ForcedUnchangedReloaded ==
  /\ pc = "commit"
  /\ force
  /\ newClusters = currentClusters
  /\ currentClusters = <<ClusterA>>

\* C7 as stated: the first trigger is the initial one, there is one initial trigger, and
\* it carries forced = true.
InitialTriggerForced ==
  first.cause # "none" =>
    /\ first.cause = "initial"
    /\ initials = 1
    /\ first.forced = TRUE

\* C7 as amended: the first trigger is the initial one, there is one initial trigger,
\* and it carries forced = false.
InitialTriggerSoft ==
  /\ first.cause = "none" => initials = 0 /\ mpc = "init" /\ pc = "idle"
  /\ first.cause # "none" =>
       /\ first.cause = "initial"
       /\ initials = 1
       /\ first.forced = FALSE
       /\ mpc = "select"

\* a pulse has been delivered after the initial trigger
PulseAfterInitial ==
  /\ first.cause = "initial"
  /\ pc = "fetch"
  /\ force

\* C8 as stated: with the empty baseline of a fresh process, the first cycle whose fetch
\* succeeds goes on to regenerate, whatever was fetched.
FirstFetchAlwaysRegenerates ==
  [][DifferDecides /\ okFetches = 1 => pc' = "certs"]_vars

\* C8 as amended: with the empty baseline of a fresh process, the first cycle whose
\* fetch succeeds goes on to regenerate when its trigger is forced or the fetched list
\* is not empty; a soft trigger that fetches no cluster is skipped.
FirstFetchRegeneratesUnlessEmpty ==
  [][DifferDecides /\ okFetches = 1 =>
       /\ currentClusters = <<>>
       /\ (pc' = "certs") = (force \/ newClusters # <<>>)
       /\ (pc' # "certs") => (pc' = "idle" /\ cycleResult' = "skip")]_vars

\* the first successful fetch, on a soft trigger, goes on to the credential write
FirstSoftFetchProceeds ==
  /\ pc = "certs"
  /\ okFetches = 1
  /\ ~force
  /\ newClusters = <<ClusterA>>

\* C9: clusterListEqual(old, new) is true exactly when old and new hold the same set of
\* names, whatever the order, the duplicates, the endpoints and the credentials; the
\* call with the arguments swapped returns the same; two empty lists are equal.
EqualIffSameNames ==
  eqPc = "return" =>
    /\ eqResult = (NameSet(eqOld) = NameSet(eqNew))
    /\ eqResult = eqReverse
    /\ (eqOld = <<>> /\ eqNew = <<>> => eqResult)

\* lists of different lengths and different credentials found equal
EqualDespiteContent ==
  /\ eqPc = "return"
  /\ eqResult
  /\ eqOld = <<ClusterA>>
  /\ eqNew = <<ClusterA2, ClusterA>>

\* C10: after a cycle that failed, the next cycle whose fetch succeeds goes past the
\* differ to the credential write, be its trigger soft or forced.
RetriesAfterFailure ==
  [][DifferDecides /\ prevFailed => pc' = "certs"]_vars

\* C11: reloadPrometheus returns success only when a request of it was answered with a 2xx
\* status; a request answered with another status is a failed attempt, retried after the
\* backoff delay.
SuccessOnlyOnAck ==
  [][pc = "reload" /\ posts' = posts + 1
       => IF lastPost' = "2xx" THEN pc' = "commit" ELSE pc' = "backoff"]_vars

\* C12: when reloadPrometheus returns without a request of it answered with a 2xx status,
\* it returns an error, the cycle's deadline has fired, and it has sent a request.
FailsAfterDeadlineAndAttempt ==
  [][pc = "reload" /\ pc' \in {"commit", "idle"} /\ lastPost' # "2xx"
       => /\ cycleResult' = "err"
          /\ ctxDone
          /\ posts >= 1]_vars

\* pulses and ticks that a goroutine or a channel is holding for the loop
HeldPulses == (IF wpc = "send" THEN 1 ELSE 0) + (IF mpc = "sendPulse" THEN 1 ELSE 0)

HeldTicks == tickBuf + (IF mpc = "sendTick" THEN 1 ELSE 0)

\* a trigger is handed to the loop
HandOver == mpc # "select" /\ mpc' = "select"

\* C13 as stated: no pulse and no tick that arrives during a cycle is dropped.
NoEventDropped == pulsesOwed = HeldPulses /\ ~lostTick

\* C13: every pulse is held until the loop takes it as a trigger; a tick that fires
\* during a cycle is discarded only when the ticker's channel already holds a tick, which
\* is then still waiting for the loop; a trigger is handed over only when no cycle is in
\* progress, and starts one.
PulsesHeldTicksCoalesced ==
  /\ [](pulsesOwed = HeldPulses /\ (lostTick => HeldTicks >= 1))
  /\ [][HandOver => pc = "idle" /\ pc' = "fetch"]_vars

\* a tick was discarded during a cycle while a pulse waits for the cycle to end
TickLostPulseWaiting == lostTick /\ mpc = "sendPulse" /\ pc # "idle" /\ wpc = "send"

\* a derived stanza is named kubernetes_<resource>_<role>
Derived(stanza) == Len(stanza.job_name) = 3

IsAuthored(stanza) == ~Derived(stanza)

\* the first call returned a document
Generated == genPc = "return" /\ ~genFirst.err

\* how many stanzas of the document have this job name
Jobs(out, name) == Cardinality({k \in 1..Len(out) : out[k].job_name = name})

\* every stanza of the input document has its place among the authored stanzas of out
InputStanzasIn(out) ==
  LET doc == InputDoc(genInput)
      kept == SelectSeq(out, IsAuthored)
  IN /\ Len(kept) = Len(doc)
     /\ \A j \in 1..Len(doc) : kept[j].job_name = doc[j].job_name

\* C14 as stated: N clusters give N x R derived stanzas, whatever the clusters are.
StanzaPerClusterAndRole ==
  Generated =>
    LET out == genFirst.data.cfg
    IN /\ Len(SelectSeq(out, Derived)) = Len(genClusters) * Cardinality(Roles)
       /\ \A i \in 1..Len(genClusters), r \in Roles :
            Jobs(out, <<"kubernetes", genClusters[i].Name, r>>) >= 1
       /\ InputStanzasIn(out)

\* the clusters of the list that have an endpoint
WithEndpoint(list) == {i \in 1..Len(list) : list[i].Endpoint # ""}

\* C14: the output holds, for every role, one derived stanza kubernetes_<resource>_<role>
\* per cluster of the list that has a non-empty endpoint, no other derived stanza, and
\* every stanza of the input document; a cluster with an empty endpoint gives none.
StanzaPerEndpointAndRole ==
  Generated =>
    LET out == genFirst.data.cfg
        with == WithEndpoint(genClusters)
    IN /\ Len(SelectSeq(out, Derived)) = Cardinality(with) * Cardinality(Roles)
       /\ \A n \in {c.Name : c \in {ClusterA, ClusterB, ClusterC}}, r \in Roles :
            Jobs(out, <<"kubernetes", n, r>>)
              = Cardinality({i \in with : genClusters[i].Name = n})
       /\ InputStanzasIn(out)

\* a list with a cluster that has an endpoint and one that has none was generated from
GeneratedWithoutEndpoint ==
  /\ Generated
  /\ genClusters = <<ClusterA, ClusterC>>
  /\ genInput = "v1"
  /\ Len(genFirst.data.cfg) = 2 + Cardinality(Roles)

\* C15: the authored stanzas of the output are the stanzas of the input document,
\* unmodified and in the input's order.
AuthoredUnmodified ==
  Generated => SelectSeq(genFirst.data.cfg, IsAuthored) = InputDoc(genInput)

\* C16 as stated: no authored stanza stands before a derived one.
DerivedFirst ==
  Generated =>
    LET out == genFirst.data.cfg
    IN \A i, j \in 1..Len(out) : i < j => ~(IsAuthored(out[i]) /\ Derived(out[j]))

\* C16: in the stanza list of the output the stanzas of the input document come first
\* and the derived stanzas are appended after them: no derived stanza stands before an
\* authored one.
AuthoredFirst ==
  Generated =>
    LET out == genFirst.data.cfg
    IN \A i, j \in 1..Len(out) : i < j => ~(Derived(out[i]) /\ IsAuthored(out[j]))

\* a document with authored and derived stanzas was generated
GeneratedBothKinds ==
  /\ Generated
  /\ \E i, j \in 1..Len(genFirst.data.cfg) :
       IsAuthored(genFirst.data.cfg[i]) /\ Derived(genFirst.data.cfg[j])

\* both calls returned a document
GeneratedTwice == genPc = "return" /\ ~genFirst.err /\ ~genSecond.err

\* C17 as stated: two calls with the same arguments return the same document.
SameOutput == genPc = "return" => genFirst = genSecond

\* two stanzas that differ at most in the role they are derived for
SameButRole(a, b) ==
  \/ a = b
  \/ /\ Derived(a)
     /\ Derived(b)
     /\ a.job_name[2] = b.job_name[2]
     /\ a.api_server = b.api_server

\* C17: two calls with the same arguments return documents with the same stanzas, each
\* as often in one as in the other, the authored ones at the same places and the derived
\* ones of each cluster at the same places; only the order of the roles within the
\* stanzas of one cluster may differ.
SameOutputButRoleOrder ==
  genPc = "return" =>
    /\ genFirst.err = genSecond.err
    /\ LET a == genFirst.data.cfg
           b == genSecond.data.cfg
       IN /\ Len(a) = Len(b)
          /\ \A k \in 1..Len(a) :
               /\ SameButRole(a[k], b[k])
               /\ Cardinality({l \in 1..Len(a) : a[l] = a[k]})
                    = Cardinality({l \in 1..Len(b) : b[l] = a[k]})

\* two calls with the same arguments returned different documents
GeneratedDifferently == GeneratedTwice /\ genFirst # genSecond

\* the credential kinds in the order writeClusterCerts writes them
KindOrder == <<"ca", "cert", "key">>

\* the places in KindOrder of the malformed credentials of a cluster
MalformedKinds(cluster) ==
  {k \in 1..3 : DecodeString(Credential(cluster, KindOrder[k])).err}

\* C18 as stated: a cluster with a malformed credential makes the call return an error
\* with none of that cluster's credential files written.
NoFileForMalformed ==
  certPc = "return" =>
    \A i \in 1..Len(certClusters) :
      MalformedKinds(certClusters[i]) # {} =>
        /\ certErr
        /\ \A t \in CertTypes :
             certAfter[<<certClusters[i].Name, t>>] = certBefore[<<certClusters[i].Name, t>>]

\* C18: a cluster with a malformed credential makes the call return an error; the file
\* of its first malformed credential and the files of the kinds after it (in the order
\* ca, cert, key) are not written, unless a cluster of the same name stands earlier in
\* the list; the files of the kinds before it may have been written.
NoFileFromMalformedOn ==
  certPc = "return" =>
    \A i \in 1..Len(certClusters) :
      LET c == certClusters[i]
          bad == MalformedKinds(c)
      IN bad # {} =>
           /\ certErr
           /\ (\A j \in 1..(i - 1) : certClusters[j].Name # c.Name) =>
                \A k \in 1..3 :
                  (\E b \in bad : b <= k) =>
                    certAfter[<<c.Name, KindOrder[k]>>] = certBefore[<<c.Name, KindOrder[k]>>]

\* the call failed on a malformed client certificate after it wrote the CA certificate
CaWrittenBeforeMalformedCert ==
  /\ certPc = "return"
  /\ certErr
  /\ certClusters = <<ClusterA2>>
  /\ certBefore[<<"a", "ca">>] = OldBytes
  /\ certAfter[<<"a", "ca">>] = DecodeString(ClusterA2.Ca).bytes
  /\ certAfter[<<"a", "cert">>] = OldBytes

\* debounce() returns and the notifier comes to send its pulse
PulseEmitted == wpc = "debounce" /\ wpc' = "send"

\* debounce() takes a raw event inside its window
EventSwallowed == wpc = "debounce" /\ raw' < raw

\* C19 as stated: a pulse is emitted only when debounceDuration has elapsed since the
\* most recent raw event.
PulseAfterQuietPeriod == [][PulseEmitted => sinceLast >= debounceDuration]_vars

\* C19: the raw event the notifier receives while it waits opens a debounce window of
\* duration D; a raw event received inside the open window is swallowed and does not
\* restart it; the pulse is emitted when D has elapsed since the window was opened.
PulseAfterFixedWindow ==
  [][/\ PulseEmitted => wAge = debounceDuration
     /\ EventSwallowed => wpc' = "debounce" /\ wAge' = wAge]_vars

\* a pulse was emitted less than D after a raw event that the window swallowed
PulseSoonAfterEvent ==
  /\ wpc = "send"
  /\ raw = 0
  /\ sinceLast < debounceDuration
  /\ burstPulses = 1

\* C20 as stated: a burst in which each event arrives less than D after the previous one
\* never produces a second pulse.
OnePulsePerBurst == burstPulses <= 1

\* C20: a burst that begins while the notifier waits for events and whose events all
\* arrive less than D after its first event produces exactly one pulse, however many
\* events it contains: never a second one, and one once its window has closed.
OnePulsePerShortBurst ==
  (burstIdle /\ burstSpan < debounceDuration) =>
    /\ burstPulses <= 1
    /\ (raw = 0 /\ wpc # "debounce") => burstPulses = 1

\* a burst of events at different times, shorter than D, has produced its one pulse
ShortBurstOnePulse ==
  /\ burstIdle
  /\ burstSpan > 0
  /\ burstSpan < debounceDuration
  /\ burstPulses = 1
  /\ wpc = "select"
  /\ raw = 0

\* the multiplexer stands at the send that follows one of its receives
MuxSending == mpc \in {"sendPulse", "sendTick"}

\* a cycle of the loop starts
TriggerConsumed == pc = "idle" /\ pc' = "fetch"

\* C21: after the initial trigger, the multiplexer leaves its select only by receiving
\* one pulse or one tick; it then receives nothing more until it has sent one trigger,
\* forced for a pulse and soft for a tick; and a cycle starts only on such a send.
TriggerPerCause ==
  [][/\ (mpc = "select" /\ mpc' # "select") =>
          \/ mpc' = "sendPulse" /\ wpc = "send" /\ wpc' = "select" /\ tickBuf' = tickBuf
          \/ mpc' = "sendTick" /\ tickBuf = 1 /\ tickBuf' = 0 /\ wpc' = wpc
     /\ MuxSending =>
          /\ ~(wpc = "send" /\ wpc' # "send")
          /\ tickBuf' >= tickBuf
          /\ \/ mpc' = mpc /\ ~TriggerConsumed
             \/ /\ mpc' = "select"
                /\ TriggerConsumed
                /\ force' = (mpc = "sendPulse")
     /\ TriggerConsumed => mpc' = "select" /\ (mpc = "init" \/ MuxSending)]_vars

\* a forced cycle has started on a pulse while a tick waits in the ticker's channel
ForcedFromPulseTickWaiting ==
  /\ pc = "fetch"
  /\ force
  /\ mpc = "select"
  /\ initials = 1
  /\ pulsesOwed = 0
  /\ tickBuf = 1

\* C22 as stated: of each source at most one event is produced and not yet consumed by
\* the loop as a trigger.
OnePendingPerSource == HeldPulses <= 1 /\ HeldTicks <= 1

\* C22: of each source at most two events are produced and not yet consumed by the loop
\* as a trigger: one the multiplexer has received and is sending to the loop, and one
\* waiting at the source (a tick in the ticker's channel, a pulse with the notifier
\* blocked on its send); the multiplexer holds one event of one source at a time.
TwoPendingPerSource ==
  /\ HeldPulses <= 2
  /\ HeldTicks <= 2
  /\ HeldPulses + HeldTicks <= 3
  /\ tickBuf <= 1

\* the multiplexer is sending a tick, a second tick waits in the ticker's channel and
\* the notifier is blocked with a pulse
TwoTicksPending ==
  /\ mpc = "sendTick"
  /\ tickBuf = 1
  /\ wpc = "send"
  /\ pc # "idle"

RECURSIVE Pow(_, _)
Pow(b, n) == IF n = 0 THEN 1 ELSE b * Pow(b, n - 1)

\* reloadInterval multiplied by reloadBackoff^(k-1)
ExpectedWait(k) ==
  (reloadInterval \div Pow(reloadBackoff[2], k - 1)) * Pow(reloadBackoff[1], k - 1)

\* the wait after the k-th failed attempt is reloadInterval x reloadBackoff^(k-1), each
\* wait longer than the one before, with as many waits as attempts have failed
WaitsGrowFromBase ==
  /\ \A k \in 1..Len(reloadWaits) : reloadWaits[k] = ExpectedWait(k)
  /\ \A k \in 1..(Len(reloadWaits) - 1) : reloadWaits[k] < reloadWaits[k + 1]
  /\ Len(reloadWaits) = reloadContacts - (IF reloadPc = "return" /\ reloadErr = "nil"
                                           THEN 1 ELSE 0)

\* the target fails twice and then succeeds
FailsTwiceThenSucceeds ==
  /\ Len(reloadTarget) = 3
  /\ reloadTarget[1] # "2xx"
  /\ reloadTarget[2] # "2xx"
  /\ reloadTarget[3] = "2xx"

\* C23: the wait before attempt k+1 is reloadInterval x reloadBackoff^(k-1) (1s, 1.1s,
\* 1.21s, ...), strictly increasing; a target that fails twice and then succeeds, the
\* call returning before the deadline, has been contacted three times and the call has
\* returned success.
BackoffAndThreeContacts ==
  /\ WaitsGrowFromBase
  /\ (/\ reloadPc = "return"
      /\ FailsTwiceThenSucceeds
      /\ TimeLess(reloadNow, reloadDeadline))
       => reloadContacts = 3 /\ reloadErr = "nil"

\* a step of a time in which every fetch returns a list with the names S and no stage
\* returns an error
Settled(S) ==
  /\ ~CycleFails
  /\ (pc = "fetch" /\ pc' # pc) => NameSet(newClusters') = S

\* a step of a cycle begun by a soft trigger writes no file and sends no request
SoftCycleQuiet ==
  (pc # "idle" /\ ~force) =>
    /\ certFiles' = certFiles
    /\ artifact' = artifact
    /\ posts = 0
    /\ posts' = 0

\* C24: if from some point on every fetch returns the name set S and no later stage
\* fails, then eventually the baseline's name set is S and stays S, and from some point
\* on the cycles of soft triggers write nothing and send no reload request.
Convergence ==
  \A S \in SUBSET Names :
    <>[][Settled(S)]_vars =>
      /\ <>[](NameSet(currentClusters) = S)
      /\ <>[][SoftCycleQuiet]_vars

\* with b as the baseline, a soft cycle that fetched b again was skipped
ConvergedThenSkipped ==
  /\ pc = "idle"
  /\ cycleResult = "skip"
  /\ currentClusters = <<ClusterB>>
  /\ certFiles[<<"b", "key">>] = "B"
  /\ artifact.state = "full"

\* the place the mark goes to from each place
MarkPath ==
  [queue |-> {"queue", "window"}, window |-> {"notifier"}, notifier |-> {"multiplexer"},
   multiplexer |-> {"none"}, none |-> {"queue"}]

\* C25: every raw event, be the notifier waiting, inside a debounce window or blocked
\* on its send when the event arrives, is received by the notifier and followed by a
\* pulse of it; the pulse goes to the multiplexer and from there to the loop as a
\* forced trigger that starts a cycle, and it does come there.
NoEventLost ==
  /\ (marked.at # "none") ~> (marked.at = "none")
  /\ [][marked' # marked =>
          /\ marked'.at \in MarkPath[marked.at]
          /\ marked'.at = "notifier" => PulseEmitted
          /\ marked'.at = "multiplexer" => (wpc = "send" /\ mpc' = "sendPulse")
          /\ marked'.at = "none" =>
               (mpc = "sendPulse" /\ pc = "idle" /\ pc' = "fetch" /\ force')]_vars

\* the pulse that follows an event waits with the notifier, blocked on its send, while
\* the multiplexer holds an earlier pulse for the loop and a cycle runs
EventPulseSecondInLine ==
  /\ marked.at = "notifier"
  /\ wpc = "send"
  /\ mpc = "sendPulse"
  /\ pc # "idle"

\* C26: after the add/remove step of any tick, oldClusters has the names of the list
\* that tick fetched, neither more nor fewer, and the step has not ended in a slice
\* access out of range.
ReconcileSyncsNames ==
  /\ process # "panic"
  /\ NameSet(oldClusters) = NameSet(newClusterList)

====
